---- MODULE Spec2Model ----
(***************************************************************************)
(* Model of pp/config.py (layered configuration, provenance, directory     *)
(* provisioning, derived constants, print_config, write_config) and of     *)
(* gdsfactory/route_info.py (route_info).                                  *)
(*                                                                         *)
(* The module-level statements of pp/config.py run once, top to bottom;    *)
(* pc is the position in that sequence.  A configuration is a mapping      *)
(* from top-level keys to nodes; a node is a scalar [kind, val] or a       *)
(* nested mapping [kind |-> "map", val |-> mapping from sub-keys to        *)
(* scalars].  A path is a sequence of path components.                     *)
(***************************************************************************)
EXTENDS Integers, Sequences, FiniteSets, TLC

VARIABLES
    pc,              \* position in the module-level code of pp/config.py
    err,             \* "none", or the exception that ended the import
    default_config,  \* the packaged config.yml: [state, content]
    home_config,     \* ~/.gdsfactory/config.yml: [state, content]
    cwd_config,      \* ./config.yml: [state, content]
    TECH,            \* the resolved configuration
    git,             \* the version-control provider: [installed, lib, cwd]
    fs,              \* the directories that exist on disk
    files,           \* the regular files that exist on disk
    dirpath_build,   \* temporary directory name of line 41
    dirpath_test,    \* temporary directory name of line 42
    CONFIG,          \* the path table
    run,             \* 1 in the first execution of the module, 2 in the second
    first,           \* path table and directories at the end of the first execution
    GRID_PER_UNIT,   \* [num, den], the quotient grid_unit / grid_resolution
    GRID_ROUNDING_RESOLUTION,
    out,             \* what the last print_config call printed
    args,            \* the arguments of a call of route_info
    d,               \* what the call of route_info returned or raised
    config,          \* the structure handed to write_config
    written          \* what write_config wrote or raised

inputs == <<default_config, home_config, cwd_config, git, files>>
dirVars == <<fs, dirpath_build, dirpath_test, CONFIG, run, first>>
gridVars == <<GRID_PER_UNIT, GRID_ROUNDING_RESOLUTION>>

callVars == <<args, d, config, written>>

vars == <<pc, err, TECH, inputs, dirVars, gridVars, out, callVars>>

----------------------------------------------------------------------------
(* Configuration values *)

IntNode(n) == [kind |-> "int", val |-> n]
StrNode(s) == [kind |-> "str", val |-> s]
MapNode(m) == [kind |-> "map", val |-> m]
NoneNode == [kind |-> "none", val |-> "None"]

EmptyMap == [k \in {} |-> NoneNode]

\* __version__ = "2.4.9"
version == "2.4.9"

\* Locations (lines 28-33) and the system temporary directory
home == <<"home">>
cwd == <<"cwd">>
repo_path == <<"repo">>
module_path == repo_path \o <<"pp">>
tmp == <<"tmp">>

NoRun == [CONFIG |-> EmptyMap, fs |-> {}]
NoQuotient == [num |-> 0, den |-> 1]
NoOutput == [kind |-> "nothing"]
NoCall == [kind |-> "no call"]
NoResult == [kind |-> "no result"]

\* Top-level keys and nested keys the layers of the merge study may define.
TopKeys == {"tech", "info"}
SubKeys == {"grid_unit", "grid_resolution"}

\* All configurations over TopKeys whose leaves all carry the value v.
NodesWith(v) ==
    {IntNode(v)} \cup {MapNode(m) : m \in UNION {[S -> {IntNode(v)}] : S \in SUBSET SubKeys}}

ConfigsWith(v) == UNION {[D -> NodesWith(v)] : D \in SUBSET TopKeys}

\* A layer file: missing, present but unreadable, or readable with content.
Missing == [state |-> "missing"]
Unreadable == [state |-> "unreadable"]
File(c) == [state |-> "ok", content |-> c]

LayerFiles(v) == {Missing, Unreadable} \cup {File(c) : c \in ConfigsWith(v)}

----------------------------------------------------------------------------
(* OmegaConf.merge: deep merge, the later source wins *)

\* Mutation: a shallow merge, the later mapping replaces the earlier one.
MergeNode_Shallow(dest, src) == src

MergeNode(dest, src) ==
    IF dest.kind = "map" /\ src.kind = "map"
    THEN MapNode([s \in DOMAIN dest.val \cup DOMAIN src.val |->
                    IF s \in DOMAIN src.val THEN src.val[s] ELSE dest.val[s]])
    ELSE src

Merge(dest, src) ==
    [k \in DOMAIN dest \cup DOMAIN src |->
        IF k \notin DOMAIN src THEN dest[k]
        ELSE IF k \notin DOMAIN dest THEN src[k]
        ELSE MergeNode(dest[k], src[k])]

\* Mutation: the readability test dropped, only existence checked.
IsReadable_ExistsOnly(f) == f.state # "missing"

\* os.access(path, os.R_OK) and path.exists()
IsReadable(f) == f.state = "ok"

\* OmegaConf.load(path): the content, or the error open() raises
LoadError(f) ==
    IF f.state = "missing" THEN "FileNotFoundError"
    ELSE IF f.state = "unreadable" THEN "PermissionError"
    ELSE "none"

\* Assignment TECH.key = node
SetKey(cfg, key, node) ==
    [k \in DOMAIN cfg \cup {key} |-> IF k = key THEN node ELSE cfg[k]]

----------------------------------------------------------------------------
(* Module-level statements of pp/config.py *)

Raise(e) ==
    /\ pc' = "raised"
    /\ err' = e

\* TECH = OmegaConf.load(default_config)
LoadDefault ==
    /\ pc = "load_default"
    /\ IF LoadError(default_config) = "none"
       THEN /\ TECH' = default_config.content
            /\ pc' = "merge_home"
            /\ err' = err
       ELSE /\ Raise(LoadError(default_config))
            /\ TECH' = TECH
    /\ UNCHANGED <<inputs, callVars, dirVars, gridVars, out>>

\* if os.access(home_config, os.R_OK) and home_config.exists(): merge
MergeHome ==
    /\ pc = "merge_home"
    /\ IF IsReadable(home_config)
       THEN IF LoadError(home_config) = "none"
            THEN /\ TECH' = Merge(TECH, home_config.content)
                 /\ pc' = "merge_cwd"
                 /\ err' = err
            ELSE /\ Raise(LoadError(home_config))
                 /\ TECH' = TECH
       ELSE /\ pc' = "merge_cwd"
            /\ UNCHANGED <<TECH, err>>
    /\ UNCHANGED <<inputs, callVars, dirVars, gridVars, out>>

\* if os.access(cwd_config, os.R_OK) and cwd_config.exists(): merge
MergeCwd ==
    /\ pc = "merge_cwd"
    /\ IF IsReadable(cwd_config)
       THEN IF LoadError(cwd_config) = "none"
            THEN /\ TECH' = Merge(TECH, cwd_config.content)
                 /\ pc' = "annotate"
                 /\ err' = err
            ELSE /\ Raise(LoadError(cwd_config))
                 /\ TECH' = TECH
       ELSE /\ pc' = "annotate"
            /\ UNCHANGED <<TECH, err>>
    /\ UNCHANGED <<inputs, callVars, dirVars, gridVars, out>>

\* The version-control provider (GitPython): whether it imports, and the
\* outcome of Repo(path, search_parent_directories=True).head.object.hexsha
\* for the library directory and for the working directory.
GitOutcomes == {"ok", "InvalidGitRepositoryError", "ValueError"}

GitEnvs ==
    {[installed |-> FALSE, lib |-> "InvalidGitRepositoryError",
      cwd |-> "InvalidGitRepositoryError"]}
    \cup [installed : {TRUE}, lib : GitOutcomes, cwd : GitOutcomes]

hexsha_repo == StrNode("hexsha_repo")
hexsha_cwd == StrNode("hexsha_cwd")

\* TECH.info = {}; TECH.info.version = __version__
WithVersion(cfg) == SetKey(cfg, "info", MapNode([version |-> StrNode(version)]))

\* TECH.info.git_hash = hexsha
WithGitHash(cfg, hexsha) ==
    SetKey(cfg, "info", MapNode(SetKey(cfg["info"].val, "git_hash", hexsha)))

\* except InvalidGitRepositoryError: pass
IsCaught(outcome) == outcome = "InvalidGitRepositoryError"

\* Lines 58-73: the info mapping, the version, and the two revision lookups
\* inside one try block.
Annotate ==
    /\ pc = "annotate"
    /\ LET base == WithVersion(TECH)
           withLib == WithGitHash(base, hexsha_repo)
       IN  IF ~git.installed
           THEN /\ TECH' = base
                /\ pc' = "provision"
                /\ err' = err
           ELSE IF git.lib # "ok"
           THEN IF IsCaught(git.lib)
                THEN /\ TECH' = base
                     /\ pc' = "provision"
                     /\ err' = err
                ELSE /\ TECH' = base
                     /\ Raise(git.lib)
           ELSE IF git.cwd # "ok"
           THEN IF IsCaught(git.cwd)
                THEN /\ TECH' = withLib
                     /\ pc' = "provision"
                     /\ err' = err
                ELSE /\ TECH' = withLib
                     /\ Raise(git.cwd)
           ELSE /\ TECH' = SetKey(withLib, "git_hash_cwd", hexsha_cwd)
                /\ pc' = "provision"
                /\ err' = err
    /\ UNCHANGED <<inputs, callVars, dirVars, gridVars, out>>

----------------------------------------------------------------------------
(* Specification of the merge: three layer files with arbitrary shapes.    *)
(* The leaves of the default, machine-level and working-directory layer    *)
(* carry the values 1, 2 and 3, so that a resolved value shows its layer.  *)

InitMerge ==
    /\ pc = "load_default"
    /\ err = "none"
    /\ default_config \in LayerFiles(1)
    /\ home_config \in LayerFiles(2)
    /\ cwd_config \in LayerFiles(3)
    /\ TECH = EmptyMap
    /\ git \in GitEnvs
    /\ files = {}
    /\ fs = {cwd, tmp}
    /\ dirpath_build = tmp \o <<"tmp1">>
    /\ dirpath_test = tmp \o <<"tmp2">>
    /\ CONFIG = EmptyMap
    /\ run = 1
    /\ first = NoRun
    /\ GRID_PER_UNIT = NoQuotient
    /\ GRID_ROUNDING_RESOLUTION = 0
    /\ out = NoOutput
    /\ args = NoCall
    /\ d = NoResult
    /\ config = NoCall
    /\ written = NoResult

NextMerge ==
    \/ LoadDefault
    \/ MergeHome
    \/ MergeCwd
    \/ Annotate

SpecMerge == InitMerge /\ [][NextMerge]_vars

----------------------------------------------------------------------------
(* Layers in priority order and what each defines *)

Layer(i) == IF i = 1 THEN default_config ELSE IF i = 2 THEN home_config ELSE cwd_config

Present(i) == Layer(i).state = "ok"

DefinesTop(i, k) == Present(i) /\ k \in DOMAIN Layer(i).content

IsMapAt(i, k) == Layer(i).content[k].kind = "map"

\* Layer i gives a scalar at the top-level path k.
DefinesScalar(i, k) == DefinesTop(i, k) /\ ~IsMapAt(i, k)

\* Layer i gives a scalar at the nested path k.s.
DefinesNested(i, k, s) ==
    DefinesTop(i, k) /\ IsMapAt(i, k) /\ s \in DOMAIN Layer(i).content[k].val

\* A higher layer defines k with the other kind (scalar against mapping).
Shadowed(i, k) ==
    \E j \in (i + 1)..3 : DefinesTop(j, k) /\ IsMapAt(j, k) # IsMapAt(i, k)

Highest(S) == CHOOSE i \in S : \A j \in S : j <= i

HasScalar(cfg, k) == k \in DOMAIN cfg /\ cfg[k].kind # "map"
HasNested(cfg, k, s) == k \in DOMAIN cfg /\ cfg[k].kind = "map" /\ s \in DOMAIN cfg[k].val

\* Keys the annotation step writes.
ReservedKeys == {"info", "git_hash_cwd"}

Resolved == pc \in {"annotate", "provision"}

MergeOfPresent ==
    LET a == default_config.content
        b == IF home_config.state = "ok" THEN Merge(a, home_config.content) ELSE a
    IN  IF cwd_config.state = "ok" THEN Merge(b, cwd_config.content) ELSE b

LoadErrors == {"FileNotFoundError", "PermissionError"}

\* C2 as stated: no subset of absent layers, the default layer included,
\* makes resolution raise.
C2_AbsenceNeverRaisesAsStated == err \notin LoadErrors

\* C2 amended: a missing or unreadable machine-level or working-directory
\* layer is skipped without raising and the result is the merge of the
\* present layers in priority order (the default layer alone is reproduced
\* unchanged); a missing or unreadable default layer raises.
C2_AbsentLayersSkipped ==
    /\ err \in LoadErrors => default_config.state # "ok" /\ err = LoadError(default_config)
    /\ default_config.state # "ok" /\ pc # "load_default" => pc = "raised"
    /\ pc = "annotate" =>
        /\ TECH = MergeOfPresent
        /\ home_config.state # "ok" /\ cwd_config.state # "ok"
             => TECH = default_config.content
        /\ cwd_config.state # "ok" /\ home_config.state = "ok"
             => TECH = Merge(default_config.content, home_config.content)

\* The machine-level file is missing, the working-directory file is
\* unreadable, and the merge has run over a non-empty default layer.
C2_Witness ==
    /\ pc = "annotate"
    /\ home_config.state = "missing"
    /\ cwd_config.state = "unreadable"
    /\ DOMAIN TECH = TopKeys
    /\ err = "none"

----------------------------------------------------------------------------
(* The path table and the directories (lines 41-42 and 76-124) *)

PathVal(p) == [kind |-> "path", val |-> p]

Parent(p) == SubSeq(p, 1, Len(p) - 1)

\* bool(value): a path is always true, None, 0, "" and {} are false
Truthy(node) ==
    IF node.kind = "int" THEN node.val # 0
    ELSE IF node.kind = "str" THEN node.val # ""
    ELSE IF node.kind = "map" THEN DOMAIN node.val # {}
    ELSE node.kind = "path"

\* Attribute access TECH.key and TECH.get(key): None for a key not defined
Attr(cfg, key) == IF key \in DOMAIN cfg THEN cfg[key] ELSE NoneNode

\* Names tempfile can draw for a temporary directory
NumTmp == 3
TmpNames == {"tmp" \o ToString(i) : i \in 1..NumTmp}

\* Mutation: mkdir without exist_ok=True.
Mkdir_NoExistOk(dirs, p) ==
    IF p \in dirs \cup files THEN [fs |-> dirs, err |-> "FileExistsError"]
    ELSE IF Parent(p) \in files THEN [fs |-> dirs, err |-> "NotADirectoryError"]
    ELSE IF Parent(p) \notin dirs THEN [fs |-> dirs, err |-> "FileNotFoundError"]
    ELSE [fs |-> dirs \cup {p}, err |-> "none"]

\* Path.mkdir(exist_ok=True), without parents=True
Mkdir(dirs, p) ==
    IF p \in dirs THEN [fs |-> dirs, err |-> "none"]
    ELSE IF p \in files THEN [fs |-> dirs, err |-> "FileExistsError"]
    ELSE IF Parent(p) \in files THEN [fs |-> dirs, err |-> "NotADirectoryError"]
    ELSE IF Parent(p) \notin dirs THEN [fs |-> dirs, err |-> "FileNotFoundError"]
    ELSE [fs |-> dirs \cup {p}, err |-> "none"]

\* Consecutive mkdir statements; the first failure ends the sequence.
RECURSIVE MkdirAll(_, _)
MkdirAll(paths, dirs) ==
    IF paths = <<>> THEN [fs |-> dirs, err |-> "none"]
    ELSE LET r == Mkdir(dirs, Head(paths))
         IN  IF r.err # "none" THEN r ELSE MkdirAll(Tail(paths), r.fs)

\* Lines 120-124: the directories the module creates
CreatedDirectories(table) ==
    << table["build_directory"].val, table["gds_directory"].val,
       table["doe_directory"].val, table["mask_directory"].val,
       table["gdslib_test"].val >>

\* Lines 41-42: tempfile.TemporaryDirectory().name creates a directory under
\* a name not in use and the dropped object removes it again at once.
MakeTempNames ==
    /\ pc = "start"
    /\ \E b \in TmpNames, t \in TmpNames :
        /\ tmp \o <<b>> \notin fs \cup files
        /\ tmp \o <<t>> \notin fs \cup files
        /\ dirpath_build' = tmp \o <<b>>
        /\ dirpath_test' = tmp \o <<t>>
    /\ pc' = "load_default"
    /\ UNCHANGED <<err, TECH, inputs, callVars, fs, CONFIG, run, first, gridVars, out>>

\* CONFIG = dict(...), lines 76-85
InitialTable ==
    [config_path |-> PathVal(cwd \o <<"config.yml">>),
     repo_path |-> PathVal(repo_path),
     module_path |-> PathVal(module_path),
     gdsdir |-> PathVal(module_path \o <<"gds">>),
     font_path |-> PathVal(module_path \o <<"gds", "alphabet.gds">>),
     masks_path |-> PathVal(repo_path \o <<"mask">>),
     home |-> PathVal(home),
     cwd |-> PathVal(cwd)]

\* Lines 100-115, for a build directory, a mask name and a gdslib path
FullTable(table, build_directory, mask_config_directory, mask_name, gdslib) ==
    [k \in DOMAIN table \cup
           {"custom_components", "gdslib", "sp", "gds", "gdslib_test",
            "build_directory", "gds_directory", "cache_doe_directory",
            "doe_directory", "mask_directory", "mask_gds",
            "mask_config_directory", "samples_path", "netlists",
            "components_path"} |->
        IF k = "custom_components" THEN Attr(TECH, "custom_components")
        ELSE IF k = "gdslib" THEN PathVal(gdslib)
        ELSE IF k = "sp" THEN PathVal(gdslib \o <<"sp">>)
        ELSE IF k = "gds" THEN PathVal(gdslib \o <<"gds">>)
        ELSE IF k = "gdslib_test" THEN PathVal(dirpath_test)
        ELSE IF k = "build_directory" THEN PathVal(build_directory)
        ELSE IF k = "gds_directory" THEN PathVal(build_directory \o <<"devices">>)
        ELSE IF k = "cache_doe_directory" THEN PathVal(build_directory \o <<"cache_doe">>)
        ELSE IF k = "doe_directory" THEN PathVal(build_directory \o <<"doe">>)
        ELSE IF k = "mask_directory" THEN PathVal(build_directory \o <<"mask">>)
        ELSE IF k = "mask_gds"
             THEN PathVal(build_directory \o <<"mask", mask_name \o ".gds">>)
        ELSE IF k = "mask_config_directory" THEN PathVal(mask_config_directory)
        ELSE IF k = "samples_path" THEN PathVal(module_path \o <<"samples">>)
        ELSE IF k = "netlists" THEN PathVal(module_path \o <<"samples", "netlists">>)
        ELSE IF k = "components_path" THEN PathVal(module_path \o <<"components">>)
        ELSE table[k]]

\* Lines 76-124 as one computation: the table, the directories, the error.
\* ("gds_resources" is never a key of CONFIG, line 117 does nothing.)
Provisioned ==
    LET hasMask == "mask" \in DOMAIN TECH
        mask_name == IF hasMask THEN Attr(TECH["mask"].val, "name")
                     ELSE StrNode("notDefined")
        build_directory == IF hasMask THEN cwd \o <<"build">> ELSE dirpath_build
        mask_config_directory == IF hasMask THEN cwd ELSE dirpath_build
        branchTable ==
            IF hasMask
            THEN SetKey(InitialTable, "devices_directory",
                        PathVal(mask_config_directory \o <<"devices">>))
            ELSE InitialTable
        made == IF hasMask THEN [fs |-> fs, err |-> "none"] ELSE Mkdir(fs, dirpath_build)
    IN  IF hasMask /\ TECH["mask"].kind # "map"
        THEN [CONFIG |-> InitialTable, fs |-> fs, err |-> "AttributeError"]
        ELSE IF made.err # "none"
        THEN [CONFIG |-> InitialTable, fs |-> made.fs, err |-> made.err]
        ELSE IF Truthy(Attr(TECH, "gdslib")) \/ mask_name.kind # "str"
        THEN [CONFIG |-> branchTable, fs |-> made.fs, err |-> "TypeError"]
        ELSE LET table == FullTable(branchTable, build_directory,
                                    mask_config_directory, mask_name.val,
                                    repo_path \o <<"gdslib">>)
                 r == MkdirAll(CreatedDirectories(table), made.fs)
             IN  [CONFIG |-> table, fs |-> r.fs, err |-> r.err]

Provision ==
    /\ pc = "provision"
    /\ CONFIG' = Provisioned.CONFIG
    /\ fs' = Provisioned.fs
    /\ IF Provisioned.err = "none"
       THEN pc' = "derive" /\ err' = err
       ELSE Raise(Provisioned.err)
    /\ UNCHANGED <<TECH, inputs, callVars, dirpath_build, dirpath_test, run, first,
                   gridVars, out>>

----------------------------------------------------------------------------
(* Derived constants (lines 184-186) *)

\* floor(log10(a / b)) for a >= b > 0
RECURSIVE FloorLog10(_, _)
FloorLog10(a, b) == IF a < 10 * b THEN 0 ELSE 1 + FloorLog10(a, 10 * b)

\* int(np.log10(num / den)) for num, den > 0: int() truncates toward zero
IntLog10(num, den) ==
    IF num >= den THEN FloorLog10(num, den) ELSE 0 - FloorLog10(den, num)

\* Error of lines 184-186 for a resolved configuration, "none" if none
DeriveError(cfg) ==
    LET tech == Attr(cfg, "tech")
    IN  IF tech.kind # "map" THEN "AttributeError"
        ELSE LET u == Attr(tech.val, "grid_unit")
                 r == Attr(tech.val, "grid_resolution")
             IN  IF u.kind # "int" \/ r.kind # "int" THEN "TypeError"
                 ELSE IF r.val = 0 THEN "ZeroDivisionError"
                 ELSE IF u.val = 0 THEN "OverflowError"
                 ELSE IF (u.val < 0) # (r.val < 0) THEN "ValueError"
                 ELSE "none"

Abs(n) == IF n < 0 THEN 0 - n ELSE n

Derive ==
    /\ pc = "derive"
    /\ IF DeriveError(TECH) = "none"
       THEN LET u == TECH["tech"].val["grid_unit"].val
                r == TECH["tech"].val["grid_resolution"].val
            IN  /\ GRID_PER_UNIT' = [num |-> u, den |-> r]
                /\ GRID_ROUNDING_RESOLUTION' = IntLog10(Abs(u), Abs(r))
                /\ pc' = "done"
                /\ err' = err
       ELSE /\ Raise(DeriveError(TECH))
            /\ UNCHANGED gridVars
    /\ UNCHANGED <<TECH, inputs, callVars, dirVars, out>>

----------------------------------------------------------------------------
(* print_config (lines 135-146) *)

Printed(key, node) == [kind |-> "value", key |-> key, val |-> node]
NotFound(key) == [kind |-> "not found", key |-> key]
PrintedAll == [kind |-> "all"]

PrintOutput(key) ==
    IF key = "" THEN PrintedAll
    ELSE IF Truthy(Attr(TECH, key)) THEN Printed(key, TECH[key])
    ELSE IF Truthy(Attr(CONFIG, key)) THEN Printed(key, CONFIG[key])
    ELSE NotFound(key)

\* Keys print_config is called with ("" stands for no key)
PrintKeys ==
    {"", "tech", "mask", "custom_components", "cache", "info",
     "build_directory", "devices_directory", "gdslib", "undefined"}

print_config(key) ==
    /\ pc = "done"
    /\ out' = PrintOutput(key)
    /\ UNCHANGED <<pc, err, TECH, inputs, callVars, dirVars, gridVars>>

----------------------------------------------------------------------------
(* A second execution of the module with the same files and directory *)

Rerun ==
    /\ pc = "done"
    /\ run = 1
    /\ run' = 2
    /\ first' = [CONFIG |-> CONFIG, fs |-> fs]
    /\ pc' = "start"
    /\ TECH' = EmptyMap
    /\ CONFIG' = EmptyMap
    /\ GRID_PER_UNIT' = NoQuotient
    /\ GRID_ROUNDING_RESOLUTION' = 0
    /\ out' = NoOutput
    /\ UNCHANGED <<err, inputs, callVars, fs, dirpath_build, dirpath_test>>

----------------------------------------------------------------------------
(* Specification of the whole module: layers as users write them *)

\* grid_unit 1e-6 and grid_resolution 1e-9, in units of 1e-9
PackagedTech == MapNode([grid_unit |-> IntNode(1000), grid_resolution |-> IntNode(1)])

PackagedConfigs ==
    { [tech |-> PackagedTech, custom_components |-> NoneNode, cache |-> IntNode(1)],
      [tech |-> PackagedTech, custom_components |-> StrNode("components"),
       cache |-> IntNode(1)] }

MaskConfig(name) == [mask |-> MapNode([name |-> StrNode(name)])]

HomeFiles ==
    { Missing, File(MaskConfig("mask_home")), File([cache |-> IntNode(0)]) }

CwdFiles ==
    { Missing, Unreadable, File(MaskConfig("mask_cwd")),
      File([mask |-> MapNode(EmptyMap)]),
      File([tech |-> MapNode([grid_resolution |-> IntNode(2000)])]) }

\* What is on disk before the module runs
DiskStates ==
    { [fs |-> {cwd, tmp}, files |-> {}],
      [fs |-> {cwd, tmp}, files |-> {cwd \o <<"build">>}],
      [fs |-> {cwd, tmp, cwd \o <<"build">>}, files |-> {}],
      [fs |-> {cwd, tmp, cwd \o <<"build">>, cwd \o <<"build", "cache_doe">>,
               cwd \o <<"devices">>}, files |-> {}] }

Init ==
    /\ pc = "start"
    /\ err = "none"
    /\ default_config \in {File(c) : c \in PackagedConfigs}
    /\ home_config \in HomeFiles
    /\ cwd_config \in CwdFiles
    /\ TECH = EmptyMap
    /\ git \in {g \in GitEnvs : g.lib = g.cwd /\ g.lib # "ValueError"}
    /\ \E disk \in DiskStates : fs = disk.fs /\ files = disk.files
    /\ dirpath_build = tmp
    /\ dirpath_test = tmp
    /\ CONFIG = EmptyMap
    /\ run = 1
    /\ first = NoRun
    /\ GRID_PER_UNIT = NoQuotient
    /\ GRID_ROUNDING_RESOLUTION = 0
    /\ out = NoOutput
    /\ args = NoCall
    /\ d = NoResult
    /\ config = NoCall
    /\ written = NoResult

Next ==
    \/ MakeTempNames
    \/ LoadDefault
    \/ MergeHome
    \/ MergeCwd
    \/ Annotate
    \/ Provision
    \/ Derive
    \/ \E key \in PrintKeys : print_config(key)
    \/ Rerun

Spec == Init /\ [][Next]_vars

----------------------------------------------------------------------------
(* Specification of the derived constants over a range of grid values *)

MaxGrid == 12

InitDerive ==
    /\ pc = "derive"
    /\ err = "none"
    /\ default_config = File([tech |-> PackagedTech])
    /\ home_config = Missing
    /\ cwd_config = Missing
    /\ \E u \in 1..MaxGrid, r \in 1..MaxGrid :
         TECH = [tech |-> MapNode([grid_unit |-> IntNode(u),
                                   grid_resolution |-> IntNode(r)])]
    /\ git = [installed |-> FALSE, lib |-> "InvalidGitRepositoryError",
              cwd |-> "InvalidGitRepositoryError"]
    /\ files = {}
    /\ fs = {cwd, tmp}
    /\ dirpath_build = tmp \o <<"tmp1">>
    /\ dirpath_test = tmp \o <<"tmp2">>
    /\ CONFIG = EmptyMap
    /\ run = 1
    /\ first = NoRun
    /\ GRID_PER_UNIT = NoQuotient
    /\ GRID_ROUNDING_RESOLUTION = 0
    /\ out = NoOutput
    /\ args = NoCall
    /\ d = NoResult
    /\ config = NoCall
    /\ written = NoResult

NextDerive == Derive

SpecDerive == InitDerive /\ [][NextDerive]_vars

----------------------------------------------------------------------------
(* Claims about the provenance annotation, the directories, print_config   *)
(* and the derived constants                                               *)

Annotated == pc = "provision"

\* C6: the version is always set, a failing revision lookup never raises
\* out of the annotation and omits only its own field, and a lookup that
\* succeeds has its field set.
C6_BestEffortProvenance ==
    /\ err \notin GitOutcomes
    /\ Annotated =>
        /\ HasNested(TECH, "info", "version")
        /\ TECH["info"].val["version"] = StrNode(version)
        /\ HasNested(TECH, "info", "git_hash") <=> (git.installed /\ git.lib = "ok")
        /\ "git_hash_cwd" \in DOMAIN TECH <=> (git.installed /\ git.cwd = "ok")

\* Logical roles of the path table that name directories to be provisioned
DirectoryRoles ==
    {"build_directory", "gds_directory", "cache_doe_directory", "doe_directory",
     "mask_directory", "devices_directory", "gdslib_test"}

ProvisionCompleted == pc \in {"derive", "done"}

\* C5: once the directory setup has completed without raising, every
\* directory the path table names exists on disk.
C5_DirectoriesExist ==
    ProvisionCompleted =>
        \A role \in DirectoryRoles \cap DOMAIN CONFIG : CONFIG[role].val \in fs

\* C7: a single-key read reports the resolved configuration's value when
\* the key is present there, whatever the value, else the path table's
\* value when the key is present there, else "not found".
C7_LookupOrder ==
    out.kind \in {"value", "not found"} =>
        IF out.key \in DOMAIN TECH THEN out = Printed(out.key, TECH[out.key])
        ELSE IF out.key \in DOMAIN CONFIG THEN out = Printed(out.key, CONFIG[out.key])
        ELSE out = NotFound(out.key)

SecondRunDone == run = 2 /\ pc = "done"

\* C8 as stated: the second run yields the same path table and leaves the
\* same directories on disk as the first.
C8_IdempotentAsStated ==
    SecondRunDone => CONFIG = first.CONFIG /\ fs = first.fs

\* Roles whose path lies under a temporary directory of the run
TemporaryRoles ==
    IF "mask" \in DOMAIN TECH THEN {"gdslib_test"}
    ELSE {"gdslib_test", "build_directory", "gds_directory", "cache_doe_directory",
          "doe_directory", "mask_directory", "mask_gds", "mask_config_directory"}

\* C8 amended: the second run raises nothing, maps every role outside the
\* temporary directories to the same path, draws fresh temporary paths for
\* the others, and adds only the newly created temporary directories to
\* the directories on disk.
C8_Rerun ==
    /\ run = 2 => pc # "raised"
    /\ SecondRunDone =>
        /\ DOMAIN CONFIG = DOMAIN first.CONFIG
        /\ \A role \in DOMAIN CONFIG \ TemporaryRoles : CONFIG[role] = first.CONFIG[role]
        /\ \A role \in TemporaryRoles :
             /\ CONFIG[role] # first.CONFIG[role]
             /\ CONFIG[role].val \notin first.fs
        /\ first.fs \subseteq fs
        /\ fs \ first.fs =
             {CONFIG[role].val : role \in TemporaryRoles \cap
                 {"gdslib_test", "build_directory", "gds_directory",
                  "doe_directory", "mask_directory"}}

\* The second run has completed in the mask workflow, over directories the
\* first run created under the working directory.
C8_Witness ==
    /\ SecondRunDone
    /\ "mask" \in DOMAIN TECH
    /\ CONFIG["build_directory"].val = cwd \o <<"build">>
    /\ cwd \o <<"build", "doe">> \in first.fs

\* k = floor(log10(num / den)): 10^k <= num / den < 10^(k+1)
IsFloorLog10(k, num, den) ==
    IF k >= 0
    THEN 10 ^ k * den <= num /\ num < 10 ^ (k + 1) * den
    ELSE den <= num * 10 ^ (0 - k) /\ num * 10 ^ (0 - k - 1) < den

\* C10: GRID_PER_UNIT is grid_unit / grid_resolution and the rounding
\* resolution is floor(log10(GRID_PER_UNIT)), also below 1.
C10_RoundingIsFloor ==
    pc = "done" =>
        /\ GRID_PER_UNIT = [num |-> TECH["tech"].val["grid_unit"].val,
                            den |-> TECH["tech"].val["grid_resolution"].val]
        /\ IsFloorLog10(GRID_ROUNDING_RESOLUTION, GRID_PER_UNIT.num, GRID_PER_UNIT.den)

----------------------------------------------------------------------------
(* route_info (gdsfactory/route_info.py, lines 4-31) *)

\* An optional argument: <<>> when omitted, <<v>> when supplied
Omitted == <<>>
Supplied(v) == <<v>>

ParameterNames == {"cs_type", "length", "length_eff", "taper"}

\* Parameters the call supplies itself: cs_type and length always,
\* length_eff and taper when given.
SuppliedParameters(a) ==
    {"cs_type", "length"}
    \cup (IF a.length_eff # Omitted THEN {"length_eff"} ELSE {})
    \cup (IF a.taper # Omitted THEN {"taper"} ELSE {})

\* Binding of **extra: a keyword that names a parameter is that parameter
\* (an error if the call supplies it already), all others go to kwargs.
BoundLengthEff(a) ==
    IF a.length_eff # Omitted THEN a.length_eff
    ELSE IF "length_eff" \in DOMAIN a.extra THEN Supplied(a.extra["length_eff"].val)
    ELSE Omitted

BoundTaper(a) ==
    IF a.taper # Omitted THEN a.taper[1]
    ELSE IF "taper" \in DOMAIN a.extra THEN Truthy(a.extra["taper"])
    ELSE FALSE

Kwargs(a) == [k \in DOMAIN a.extra \ ParameterNames |-> a.extra[k]]

\* Mutation: a zero effective length treated like an omitted one.
EffectiveLength_Falsy(length, length_eff) ==
    IF length_eff = Omitted \/ length_eff = Supplied(0) THEN length ELSE length_eff[1]

\* if length_eff is None: length_eff = length
EffectiveLength(length, length_eff) ==
    IF length_eff = Omitted THEN length ELSE length_eff[1]

\* Mutation: keys already set are kept.
Update_KeepFirst(dict, kwargs) ==
    [k \in DOMAIN dict \cup DOMAIN kwargs |->
        IF k \in DOMAIN dict THEN dict[k] ELSE kwargs[k]]

\* d.update(kwargs)
Update(dict, kwargs) ==
    [k \in DOMAIN dict \cup DOMAIN kwargs |->
        IF k \in DOMAIN kwargs THEN kwargs[k] ELSE dict[k]]

LengthKey(cs_type) == cs_type \o "_length"
TaperLengthKey(cs_type) == cs_type \o "_taper_length"

\* The body of route_info
RouteInfoBody(cs_type, length, length_eff, taper, kwargs) ==
    LET eff == EffectiveLength(length, length_eff)
        base == [k \in {"type", "length", LengthKey(cs_type), "weight"} |->
                    IF k = "type" THEN StrNode(cs_type) ELSE IntNode(eff)]
        tapered == IF taper THEN SetKey(base, TaperLengthKey(cs_type), IntNode(length))
                   ELSE base
    IN  Update(tapered, kwargs)

Returned(dict) == [kind |-> "returned", value |-> dict]
Raised(e) == [kind |-> "raised", error |-> e]

\* route_info(cs_type, length, [length_eff=..], [taper=..], **extra)
RouteInfoCall(a) ==
    IF DOMAIN a.extra \cap SuppliedParameters(a) # {}
    THEN Raised("TypeError")
    ELSE Returned(RouteInfoBody(a.cs_type, a.length, BoundLengthEff(a),
                                BoundTaper(a), Kwargs(a)))

route_info ==
    /\ args # NoCall
    /\ d = NoResult
    /\ d' = RouteInfoCall(args)
    /\ UNCHANGED <<pc, err, TECH, inputs, dirVars, gridVars, out, args, config, written>>

\* Inputs of the study of route_info
MaxLength == 2
Lengths == (0 - 1)..MaxLength
CrossSectionTypes == {"strip", "rib"}
ExtraValues == {IntNode(9)}
ExtraKeys(cs_type) ==
    {"type", "length", "weight", LengthKey(cs_type), TaperLengthKey(cs_type),
     "loss", "taper", "length_eff"}

RouteCalls ==
    UNION { [cs_type : {t}, length : Lengths,
             length_eff : {Omitted} \cup {Supplied(v) : v \in Lengths},
             taper : {Omitted, Supplied(TRUE), Supplied(FALSE)},
             extra : UNION {[S -> ExtraValues] : S \in SUBSET ExtraKeys(t)}]
            : t \in CrossSectionTypes }

InitRoute ==
    /\ pc = "done"
    /\ err = "none"
    /\ default_config = File([tech |-> PackagedTech])
    /\ home_config = Missing
    /\ cwd_config = Missing
    /\ TECH = [tech |-> PackagedTech]
    /\ git = [installed |-> FALSE, lib |-> "InvalidGitRepositoryError",
              cwd |-> "InvalidGitRepositoryError"]
    /\ files = {}
    /\ fs = {cwd, tmp}
    /\ dirpath_build = tmp \o <<"tmp1">>
    /\ dirpath_test = tmp \o <<"tmp2">>
    /\ CONFIG = InitialTable
    /\ run = 1
    /\ first = NoRun
    /\ GRID_PER_UNIT = NoQuotient
    /\ GRID_ROUNDING_RESOLUTION = 0
    /\ out = NoOutput
    /\ args \in RouteCalls
    /\ d = NoResult
    /\ config = NoCall
    /\ written = NoResult

NextRoute == route_info

SpecRoute == InitRoute /\ [][NextRoute]_vars

\* The effective length the call asks for
AskedLength(a) == IF a.length_eff = Omitted THEN a.length ELSE a.length_eff[1]

IsTaper(a) == a.taper = Supplied(TRUE)

\* C3: without extra attributes the result is exactly type, length,
\* "T_length" and weight, the three lengths being length_eff when supplied
\* (also 0 or negative) and length otherwise, plus "T_taper_length" with
\* the physical length exactly when the taper flag is true.
C3_BaseSchema ==
    d # NoResult /\ DOMAIN args.extra = {} =>
        /\ d.kind = "returned"
        /\ DOMAIN d.value =
             {"type", "length", LengthKey(args.cs_type), "weight"}
             \cup (IF IsTaper(args) THEN {TaperLengthKey(args.cs_type)} ELSE {})
        /\ d.value["type"] = StrNode(args.cs_type)
        /\ d.value["length"] = IntNode(AskedLength(args))
        /\ d.value[LengthKey(args.cs_type)] = IntNode(AskedLength(args))
        /\ d.value["weight"] = IntNode(AskedLength(args))
        /\ IsTaper(args) => d.value[TaperLengthKey(args.cs_type)] = IntNode(args.length)

\* A taper of length 2 with effective length 0 and no extra attributes.
C3_Witness ==
    /\ d # NoResult
    /\ DOMAIN args.extra = {}
    /\ args.length = 2
    /\ args.length_eff = Supplied(0)
    /\ IsTaper(args)
    /\ d.value["weight"] = IntNode(0)
    /\ d.value[TaperLengthKey(args.cs_type)] = IntNode(2)

BaseKeys(a) ==
    {"type", "length", "weight", LengthKey(a.cs_type)}
    \cup (IF IsTaper(a) THEN {TaperLengthKey(a.cs_type)} ELSE {})

BaseValue(a, k) ==
    IF k = "type" THEN StrNode(a.cs_type)
    ELSE IF k = TaperLengthKey(a.cs_type) THEN IntNode(a.length)
    ELSE IntNode(AskedLength(a))

\* C4 as stated: every extra key, the base keys type, length, weight,
\* "T_length" and "T_taper_length" included, maps to the extra value, every
\* other base key keeps its base value, and no collision makes the call fail.
C4_ExtraWinsAsStated ==
    d # NoResult /\ DOMAIN args.extra \cap {"length_eff", "taper"} = {} =>
        /\ d.kind = "returned"
        /\ \A k \in DOMAIN args.extra : k \in DOMAIN d.value /\ d.value[k] = args.extra[k]
        /\ \A k \in BaseKeys(args) \ DOMAIN args.extra :
             k \in DOMAIN d.value /\ d.value[k] = BaseValue(args, k)

\* The call with the parameter-named extra keys it does not supply itself
\* read as those parameters.
AsParameters(a) ==
    [a EXCEPT !.length_eff = IF "length_eff" \in DOMAIN a.extra
                             THEN Supplied(a.extra["length_eff"].val) ELSE @,
              !.taper = IF "taper" \in DOMAIN a.extra
                        THEN Supplied(Truthy(a.extra["taper"])) ELSE @]

\* C4 amended: an extra key that is not a parameter name of route_info maps
\* to the extra value, also when it is type, weight, "T_length" or
\* "T_taper_length", and every base key that is not an extra key keeps its
\* base value; an extra key that names a parameter is not an extra
\* attribute: the call raises TypeError when it supplies that parameter
\* itself (length always), and otherwise the key sets the parameter, so the
\* base key length cannot be overwritten.
C4_ExtraWins ==
    d # NoResult =>
        IF \/ "length" \in DOMAIN args.extra
           \/ "length_eff" \in DOMAIN args.extra /\ args.length_eff # Omitted
           \/ "taper" \in DOMAIN args.extra /\ args.taper # Omitted
        THEN d = Raised("TypeError")
        ELSE /\ d.kind = "returned"
             /\ \A k \in DOMAIN args.extra \ ParameterNames :
                  k \in DOMAIN d.value /\ d.value[k] = args.extra[k]
             /\ \A k \in BaseKeys(AsParameters(args)) \ DOMAIN args.extra :
                  k \in DOMAIN d.value /\ d.value[k] = BaseValue(AsParameters(args), k)
             /\ DOMAIN d.value =
                  BaseKeys(AsParameters(args)) \cup (DOMAIN args.extra \ ParameterNames)

\* Extra attributes overwrite type and weight and add loss, while length
\* keeps its base value.
C4_Witness ==
    /\ d # NoResult
    /\ DOMAIN args.extra = {"type", "weight", "loss"}
    /\ args.length = 2
    /\ args.length_eff = Omitted
    /\ d.kind = "returned"
    /\ d.value["type"] = IntNode(9)
    /\ d.value["length"] = IntNode(2)

----------------------------------------------------------------------------
(* complex_encoder and write_config (lines 149-160) *)

ListVal(seq) == [kind |-> "list", val |-> seq]

\* A value json cannot represent and complex_encoder does not know
SetVal == [kind |-> "set", val |-> "{1}"]

\* str(path)
RECURSIVE PathString(_)
PathString(p) == IF p = <<>> THEN "" ELSE "/" \o Head(p) \o PathString(Tail(p))

NotSerializable(z) ==
    [kind |-> "raised", error |-> "TypeError", value |-> z, type |-> z.kind]

\* Mutation: every unknown value rendered with str() instead of raising.
complex_encoder_StrAll(z) ==
    IF z.kind = "path" THEN Returned(StrNode(PathString(z.val)))
    ELSE Returned(StrNode(z.kind))

complex_encoder(z) ==
    IF z.kind = "path" THEN Returned(StrNode(PathString(z.val)))
    ELSE NotSerializable(z)

\* Keys of the dictionaries written, in the order sort_keys=True visits them
KeyOrder == <<"build_directory", "cwd">>

SortedKeys(m) == SelectSeq(KeyOrder, LAMBDA k : k \in DOMAIN m)

\* json.dump(..., default=complex_encoder): native values as they are, lists
\* and dictionaries element by element, anything else through the default
\* hook, whose result is encoded in turn; the first error ends the call.
RECURSIVE Encode(_), EncodeList(_), EncodeItems(_, _)
Encode(v) ==
    IF v.kind \in {"int", "str", "none"} THEN Returned(v)
    ELSE IF v.kind = "list"
    THEN LET r == EncodeList(v.val)
         IN  IF r.kind = "raised" THEN r ELSE Returned(ListVal(r.value))
    ELSE IF v.kind = "map"
    THEN LET r == EncodeItems(v.val, SortedKeys(v.val))
         IN  IF r.kind = "raised" THEN r ELSE Returned(MapNode(r.value))
    ELSE LET r == complex_encoder(v)
         IN  IF r.kind = "raised" THEN r ELSE Encode(r.value)

EncodeList(seq) ==
    IF seq = <<>> THEN Returned(<<>>)
    ELSE LET h == Encode(Head(seq))
         IN  IF h.kind = "raised" THEN h
             ELSE LET t == EncodeList(Tail(seq))
                  IN  IF t.kind = "raised" THEN t ELSE Returned(<<h.value>> \o t.value)

EncodeItems(m, keys) ==
    IF keys = <<>> THEN Returned(EmptyMap)
    ELSE LET h == Encode(m[Head(keys)])
         IN  IF h.kind = "raised" THEN h
             ELSE LET t == EncodeItems(m, Tail(keys))
                  IN  IF t.kind = "raised" THEN t
                      ELSE Returned(SetKey(t.value, Head(keys), h.value))

\* write_config(config, json_out_path): the document written to the file,
\* or the error raised (text already written stays in the file).
write_config ==
    /\ config # NoCall
    /\ written = NoResult
    /\ written' = Encode(config)
    /\ UNCHANGED <<pc, err, TECH, inputs, dirVars, gridVars, out, args, d, config>>

\* Structures handed to write_config
MaxLen == 2
WriteLeaves ==
    {IntNode(1), StrNode("a"), NoneNode, PathVal(cwd), PathVal(cwd \o <<"build">>), SetVal}

SeqsUpTo(S, n) == UNION {[1..m -> S] : m \in 0..n}

Flat ==
    WriteLeaves
    \cup {ListVal(q) : q \in SeqsUpTo(WriteLeaves, MaxLen)}
    \cup {MapNode(m) : m \in UNION {[K -> WriteLeaves] : K \in SUBSET {"cwd"}}}

Structures ==
    Flat \cup {MapNode(m) : m \in UNION {[K -> Flat] : K \in SUBSET {"build_directory", "cwd"}}}

InitWrite ==
    /\ pc = "done"
    /\ err = "none"
    /\ default_config = File([tech |-> PackagedTech])
    /\ home_config = Missing
    /\ cwd_config = Missing
    /\ TECH = [tech |-> PackagedTech]
    /\ git = [installed |-> FALSE, lib |-> "InvalidGitRepositoryError",
              cwd |-> "InvalidGitRepositoryError"]
    /\ files = {}
    /\ fs = {cwd, tmp}
    /\ dirpath_build = tmp \o <<"tmp1">>
    /\ dirpath_test = tmp \o <<"tmp2">>
    /\ CONFIG = InitialTable
    /\ run = 1
    /\ first = NoRun
    /\ GRID_PER_UNIT = NoQuotient
    /\ GRID_ROUNDING_RESOLUTION = 0
    /\ out = NoOutput
    /\ args = NoCall
    /\ d = NoResult
    /\ config \in Structures
    /\ written = NoResult

NextWrite == write_config

SpecWrite == InitWrite /\ [][NextWrite]_vars

IsContainer(v) == v.kind \in {"list", "map"}
IsNative(v) == v.kind \in {"int", "str", "none"}

Children(v) ==
    IF v.kind = "list" THEN {v.val[i] : i \in DOMAIN v.val}
    ELSE IF v.kind = "map" THEN {v.val[k] : k \in DOMAIN v.val}
    ELSE {}

\* The values of a structure that are neither native, nor containers, nor paths
RECURSIVE Unsupported(_)
Unsupported(v) ==
    IF IsContainer(v) THEN UNION {Unsupported(c) : c \in Children(v)}
    ELSE IF IsNative(v) \/ v.kind = "path" THEN {}
    ELSE {v}

\* The document j is the structure v with every path as its string form.
RECURSIVE Faithful(_, _)
Faithful(v, j) ==
    IF v.kind = "path" THEN j = StrNode(PathString(v.val))
    ELSE IF IsNative(v) THEN j = v
    ELSE /\ j.kind = v.kind
         /\ DOMAIN j.val = DOMAIN v.val
         /\ \A i \in DOMAIN v.val : Faithful(v.val[i], j.val[i])

====
